---- MODULE Spec2Model ----
(***************************************************************************)
(* Storage-resolution layer of the state trie (core/store trie_storage.rs):*)
(* the shard cache (TrieCache), the prefetch registry (PrefetchSlot map),  *)
(* the execution thread's TrieCachingStorage::retrieve_raw_bytes and the   *)
(* TriePrefetchingStorage::retrieve_raw_bytes of the I/O threads.          *)
(*                                                                         *)
(* Granularity: one action per critical section.  A section that takes a   *)
(* single lock is one atomic step guarded by the lock being free; the      *)
(* I/O-thread section that nests the registry lock inside the shard-cache  *)
(* lock is split at each acquisition.  Thread-local work (the chunk-cache  *)
(* lookup, the counters, the chunk-cache insert) is folded into the        *)
(* neighbouring step that touches shared state.                            *)
(*                                                                         *)
(* Specifications:                                                         *)
(*   Spec       the caching storage with its I/O threads;                  *)
(*   SpecLru    a TrieCache on its own, every get/insert sequence logged;  *)
(*   SpecCache  a TrieCache shared by update_cache (entry by entry, under  *)
(*              its guard) and other users;                                *)
(*   SpecRecord a TrieRecordingStorage, then a TrieMemoryPartialStorage    *)
(*              built from what it recorded;                               *)
(*   SpecKey    the two key functions of column State;                     *)
(*   SpecIo     the I/O threads fed through their channels;                *)
(*   SpecLive   the retrieve calls under fair scheduling, with store reads *)
(*              of the I/O threads that succeed;                           *)
(*   SpecIoFair the I/O threads fed through their channels, under fair     *)
(*              scheduling, with store reads that may return no payload.   *)
(***************************************************************************)
EXTENDS Naturals, Sequences, FiniteSets

\* ---------------------------------------------------------------- bounds
NumWorkers == 2
ShardCacheCap == 2
MaxOps == 4
MaxBatch == 2
MaxTrace == 6
MaxKeySkew == 1
MaxQueue == 3

\* ------------------------------------------------------ program constants
TRIE_LIMIT_CACHED_VALUE_SIZE == 1000
KeyLen == 40
UidLen == 8

\* ------------------------------------------------------------- universe
Main == 0
Workers == 1..NumWorkers
Threads == {Main} \cup Workers
NoThread == NumWorkers + 1

\* Content hashes.
Hashes == {"A", "B"}

\* A payload: the bytes (identified by the hash they digest to) and len().
Payload(h, n) == [data |-> h, len |-> n]

\* Payload sizes around the admission limit of the shard cache.
Small == TRIE_LIMIT_CACHED_VALUE_SIZE - 1
Large == TRIE_LIMIT_CACHED_VALUE_SIZE

\* Option<T> is <<>> (None) or <<x>> (Some(x)).
None == <<>>
Some(x) == <<x>>

\* The persistent stores considered: "A" is a small node; "B" is a small
\* node, a node of exactly the limit size, or a hash the store lacks.
Stores ==
    {[h \in Hashes |-> IF h = "A" THEN Some(Payload(h, Small)) ELSE b] :
        b \in {Some(Payload("B", Small)), Some(Payload("B", Large)), None}}

Modes == {"CachingShard", "CachingChunk"}

\* ------------------------------------------------------------ LruCache
\* A cache is a sequence of entries, least recently used first.
LruHas(c, h) == \E i \in 1..Len(c) : c[i].hash = h

LruIndex(c, h) == CHOOSE i \in 1..Len(c) : c[i].hash = h

LruWithout(c, h) == SelectSeq(c, LAMBDA e : e.hash # h)

\* Mutant of LruPeek: the value of the most recently used entry.
LruPeekNewest(c, h) == IF LruHas(c, h) THEN Some(c[Len(c)].val) ELSE None

\* LruCache::get: the value, and the entry becomes the most recently used.
LruPeek(c, h) == IF LruHas(c, h) THEN Some(c[LruIndex(c, h)].val) ELSE None

\* Mutant of LruTouch: a get leaves the recency order alone.
LruTouchNever(c, h) == c

\* Mutant of LruTouch: the lookup takes the entry out.
LruTouchRemoves(c, h) == LruWithout(c, h)

\* LruCache::get: the recency order after the lookup.
LruTouch(c, h) == IF LruHas(c, h)
                  THEN Append(LruWithout(c, h), c[LruIndex(c, h)])
                  ELSE c

\* Mutant of LruPut: nothing is inserted.
LruPutNever(c, h, v, cap) == c

\* LruCache::put: replaces and refreshes an existing key, otherwise evicts
\* the least recently used entry when full.
LruPut(c, h, v, cap) ==
    IF LruHas(c, h) THEN Append(LruWithout(c, h), [hash |-> h, val |-> v])
    ELSE IF cap = 0 THEN c
    ELSE IF Len(c) >= cap THEN Append(Tail(c), [hash |-> h, val |-> v])
    ELSE Append(c, [hash |-> h, val |-> v])

\* LruCache::pop
LruPop(c, h) == LruWithout(c, h)

LruKeys(c) == {c[i].hash : i \in 1..Len(c)}

\* --------------------------------------------------------------- state
VARIABLES
    store,           \* Store, column State: hash -> Option<payload>
    shard_cache,     \* TrieCache: LRU sequence of [hash, val]
    chunk_cache,     \* TrieCachingStorage::chunk_cache: hash -> Option<payload>
    cache_mode,      \* TrieCachingStorage::cache_mode
    prefetching,     \* registry: hash -> Option<PrefetchSlot>
    db_read_nodes,   \* TrieCachingStorage::db_read_nodes
    mem_read_nodes,  \* TrieCachingStorage::mem_read_nodes
    cacheLock,       \* thread inside shard_cache.0.lock(), or NoThread
    prefetchLock,    \* thread inside prefetching.lock(), or NoThread
    poisoned,        \* the shard-cache mutex was poisoned by a panic
    pc,              \* per thread: position inside retrieve_raw_bytes
    key,             \* per thread: Option<hash> of the call
    val,             \* per thread: Option<payload> local `val`
    result,          \* per thread: outcome of the last returned call
    fetched,         \* per thread: the current/last call read the store
    calls,           \* retrieve calls the execution thread has started
    prefetches,      \* retrieve calls the I/O threads have started
    updates,         \* update_cache and clear calls made
    history,         \* execution thread: its successful calls, in order
    chunkModeOnly,   \* every call so far ran in CachingChunk mode
    capacity,        \* TrieCache: the cap given to LruCache::new
    batch,           \* update_cache: the ops of the call in progress or last made
    cursor,          \* update_cache: entries of batch already applied
    trace,           \* operations made on a storage under test, in order
    recorded,        \* TrieRecordingStorage::recorded: hash -> Option<payload>
    store_reads,     \* TrieRecordingStorage: store.get calls made, per hash
    recorded_storage, \* TrieMemoryPartialStorage::recorded_storage
    visited_nodes,   \* TrieMemoryPartialStorage::visited_nodes
    replayed,        \* calls of the trace replayed on the partial storage
    uid,             \* a ShardUId, as its bytes
    node_hash,       \* a CryptoHash, as its bytes
    store_key,       \* a key of column State, as its bytes
    decoded,         \* outcome of get_shard_uid_and_hash_from_key
    outbox,          \* per I/O thread: every request sent to it, in order
    taken,           \* per I/O thread: requests it has received so far
    sawPending       \* execution thread: this call polled a Pending slot

vars == <<store, shard_cache, chunk_cache, cache_mode, prefetching, db_read_nodes,
          mem_read_nodes, cacheLock, prefetchLock, poisoned, pc, key, val,
          result, fetched, calls, prefetches, updates, history, chunkModeOnly,
          capacity, batch, cursor, trace, recorded, store_reads,
          recorded_storage, visited_nodes, replayed, uid, node_hash,
          store_key, decoded, outbox, taken, sawPending>>

\* The state of a TrieCache exercised on its own, and of the recording and
\* partial storages.
cacheAux == <<capacity, batch, cursor, trace>>
recAux == <<recorded, store_reads, recorded_storage, visited_nodes, replayed>>

\* The inputs and outputs of the store-key functions, the request channels
\* of the I/O threads, and what the execution thread's poll loop has seen.
keyAux == <<uid, node_hash, store_key, decoded>>
ioAux == <<outbox, taken>>
restAux == <<keyAux, ioAux, sawPending>>
aux == <<cacheAux, recAux, restAux>>
mainAux == <<cacheAux, recAux, keyAux, ioAux>>

locks == <<cacheLock, prefetchLock, poisoned>>
owned == <<chunk_cache, cache_mode, db_read_nodes, mem_read_nodes>>
locals == <<pc, key, val, result, fetched>>
ghost == <<calls, prefetches, updates, history, chunkModeOnly>>

\* Operations issued so far, of the MaxOps the workload holds.
Issued == calls + prefetches + updates

\* PrefetchSlot
Pending == [state |-> "Pending", val |-> None]
Done(v) == [state |-> "Done", val |-> Some(v)]

\* Result<Arc<[u8]>, StorageError>
NoResult == [kind |-> "None", val |-> None]
Ok(v) == [kind |-> "Ok", val |-> Some(v)]
Err(e) == [kind |-> e, val |-> None]

\* TrieCachingStorage::new and a fresh registry, over an empty TrieCache.
InitCaching ==
    /\ store \in Stores
    /\ shard_cache = <<>>
    /\ chunk_cache = [h \in Hashes |-> None]
    /\ cache_mode = "CachingShard"
    /\ prefetching = [h \in Hashes |-> None]
    /\ db_read_nodes = 0
    /\ mem_read_nodes = 0
    /\ cacheLock = NoThread
    /\ prefetchLock = NoThread
    /\ poisoned = FALSE
    /\ pc = [t \in Threads |-> "idle"]
    /\ key = [t \in Threads |-> None]
    /\ val = [t \in Threads |-> None]
    /\ result = [t \in Threads |-> NoResult]
    /\ fetched = [t \in Threads |-> FALSE]
    /\ calls = 0
    /\ prefetches = 0
    /\ updates = 0
    /\ history = <<>>
    /\ chunkModeOnly = TRUE

\* No update_cache call has been made on the TrieCache.
InitTrieCache ==
    /\ batch = <<>>
    /\ cursor = 0
    /\ trace = <<>>

\* A fresh TrieRecordingStorage; no TrieMemoryPartialStorage built yet.
InitRecording ==
    /\ recorded = [h \in Hashes |-> None]
    /\ store_reads = [h \in Hashes |-> 0]
    /\ recorded_storage = [h \in Hashes |-> None]
    /\ visited_nodes = {}
    /\ replayed = 0

\* No store key composed or decoded, no request sent to an I/O thread, no
\* poll made.
InitRest ==
    /\ uid = <<>>
    /\ node_hash = <<>>
    /\ store_key = <<>>
    /\ decoded = NoResult
    /\ outbox = [w \in Workers |-> <<>>]
    /\ taken = [w \in Workers |-> 0]
    /\ sawPending = FALSE

\* The caching storage with its I/O threads, over TrieCache::with_capacity.
Init ==
    /\ InitCaching
    /\ capacity = ShardCacheCap
    /\ InitTrieCache
    /\ InitRecording
    /\ InitRest

\* ------------------------------------------------------------ helpers
\* Mutant of CheckPrefetched: a Done slot is returned but left in place.
CheckPrefetchedKeepsDone(reg, h) ==
    IF reg[h] = None THEN [slot |-> None, reg |-> reg]
    ELSE IF reg[h][1].state = "Pending" THEN [slot |-> Some(Pending), reg |-> reg]
    ELSE [slot |-> reg[h], reg |-> reg]

\* Mutant of CheckPrefetched: every occupied slot is removed, Pending too.
CheckPrefetchedDropsPending(reg, h) ==
    IF reg[h] = None THEN [slot |-> None, reg |-> reg]
    ELSE [slot |-> reg[h], reg |-> [reg EXCEPT ![h] = None]]

\* check_prefetched: what the caller sees and the registry afterwards.  A
\* Done slot is removed by the call that returns it, a Pending one stays.
CheckPrefetched(reg, h) ==
    IF reg[h] = None THEN [slot |-> None, reg |-> reg]
    ELSE IF reg[h][1].state = "Pending" THEN [slot |-> Some(Pending), reg |-> reg]
    ELSE [slot |-> reg[h], reg |-> [reg EXCEPT ![h] = None]]

\* Mutant of Admits: a payload of exactly the limit size is admitted.
AdmitsUpToLimit(v) == v.len <= TRIE_LIMIT_CACHED_VALUE_SIZE

\* The admission test of the shard cache.
Admits(v) == v.len < TRIE_LIMIT_CACHED_VALUE_SIZE

\* store.get(DBCol::State, key) without I/O failure: Ok(Some(val)) | Ok(None)
StoreGet(h) == store[h]

\* Mutant of StoreError: the two errors are swapped.
StoreErrorSwapped(io) == IF io = "fail" THEN "StorageInconsistentState"
                         ELSE "StorageInternalError"

\* The error a store read maps to: an I/O failure, or an absent hash.
StoreError(io) == IF io = "fail" THEN "StorageInternalError"
                  ELSE "StorageInconsistentState"

\* Mutant of IncDbReadNodes: the read is not counted.
DbReadNotCounted(n) == n

\* db_read_nodes after a call that passed the chunk cache returns.
IncDbReadNodes(n) == n + 1

\* Mutant of IncMemReadNodes: the hit is not counted.
MemReadNotCounted(n) == n

\* mem_read_nodes after a chunk-cache hit.
IncMemReadNodes(n) == n + 1

\* Mutant of ChunkInsert: the chunk cache is never filled.
ChunkInsertNever(cc, m, h, v) == cc

\* Mutant of ChunkInsert: the chunk cache is filled in every mode.
ChunkInsertAlways(cc, m, h, v) == [cc EXCEPT ![h] = Some(v)]

\* Mutant of ChunkInsert: the insert starts from an empty chunk cache.
ChunkInsertFresh(cc, m, h, v) ==
    IF m = "CachingChunk"
    THEN [x \in Hashes |-> IF x = h THEN Some(v) ELSE None]
    ELSE cc

\* chunk_cache after a successful read of h in mode m.
ChunkInsert(cc, m, h, v) ==
    IF m = "CachingChunk" THEN [cc EXCEPT ![h] = Some(v)] ELSE cc

\* A thread moves on inside its call.
Goto(t, p) ==
    /\ pc' = [pc EXCEPT ![t] = p]
    /\ UNCHANGED <<key, val, result, fetched>>

\* A thread returns Ok(v) from retrieve_raw_bytes.
ReturnOk(t, v) ==
    /\ pc' = [pc EXCEPT ![t] = "idle"]
    /\ result' = [result EXCEPT ![t] = Ok(v)]
    /\ val' = [val EXCEPT ![t] = None]
    /\ fetched' = [fetched EXCEPT ![t] = FALSE]
    /\ UNCHANGED key

\* Mutant of Fail: the thread that gets the error stops.
FailStops(t, e) ==
    /\ pc' = [pc EXCEPT ![t] = "exited"]
    /\ result' = [result EXCEPT ![t] = Err(e)]
    /\ val' = [val EXCEPT ![t] = None]
    /\ fetched' = [fetched EXCEPT ![t] = FALSE]
    /\ UNCHANGED key

\* A thread returns Err(e) from retrieve_raw_bytes.
Fail(t, e) ==
    /\ pc' = [pc EXCEPT ![t] = "idle"]
    /\ result' = [result EXCEPT ![t] = Err(e)]
    /\ val' = [val EXCEPT ![t] = None]
    /\ fetched' = [fetched EXCEPT ![t] = FALSE]
    /\ UNCHANGED key

\* A thread panics: it never runs again.
Panic(t) ==
    /\ pc' = [pc EXCEPT ![t] = "panicked"]
    /\ key' = [key EXCEPT ![t] = None]
    /\ val' = [val EXCEPT ![t] = None]
    /\ fetched' = [fetched EXCEPT ![t] = FALSE]
    /\ result' = [result EXCEPT ![t] = NoResult]

\* The tail of TrieCachingStorage::retrieve_raw_bytes: count the read,
\* optionally fill the chunk cache, return Ok(val).
Counted(h, v) ==
    /\ db_read_nodes' = IncDbReadNodes(db_read_nodes)
    /\ chunk_cache' = ChunkInsert(chunk_cache, cache_mode, h, v)
    /\ UNCHANGED <<mem_read_nodes, cache_mode>>
    /\ ReturnOk(Main, v)
    /\ history' = Append(history, [hash |-> h, chunk |-> FALSE])
    /\ UNCHANGED <<calls, prefetches, updates, chunkModeOnly>>

\* ------------------------------------------- execution thread: retrieve
\* A thread enters retrieve_raw_bytes(h).
Enter(t, h) ==
    /\ key' = [key EXCEPT ![t] = Some(h)]
    /\ result' = [result EXCEPT ![t] = NoResult]
    /\ UNCHANGED <<val, fetched>>

\* TrieCachingStorage::retrieve_raw_bytes up to the registry: the chunk-cache
\* lookup, then the shard-cache lookup under the cache lock; a shard-cache
\* hit goes straight to the tail.
MainBegin(h) ==
    /\ pc[Main] = "idle"
    /\ Issued < MaxOps
    /\ calls' = calls + 1
    /\ chunkModeOnly' = (chunkModeOnly /\ cache_mode = "CachingChunk")
    /\ UNCHANGED <<prefetches, updates>>
    /\ IF chunk_cache[h] # None
       THEN /\ mem_read_nodes' = IncMemReadNodes(mem_read_nodes)
            /\ key' = [key EXCEPT ![Main] = Some(h)]
            /\ result' = [result EXCEPT ![Main] = Ok(chunk_cache[h][1])]
            /\ history' = Append(history, [hash |-> h, chunk |-> TRUE])
            /\ UNCHANGED <<pc, val, fetched, db_read_nodes, chunk_cache,
                           cache_mode, shard_cache>>
       ELSE /\ cacheLock = NoThread
            /\ IF poisoned
               THEN /\ Panic(Main)
                    /\ UNCHANGED <<shard_cache, owned, history>>
               ELSE IF LruHas(shard_cache, h)
               THEN /\ shard_cache' = LruTouch(shard_cache, h)
                    /\ db_read_nodes' = IncDbReadNodes(db_read_nodes)
                    /\ chunk_cache' = ChunkInsert(chunk_cache, cache_mode, h,
                                                  LruPeek(shard_cache, h)[1])
                    /\ key' = [key EXCEPT ![Main] = Some(h)]
                    /\ result' = [result EXCEPT ![Main] =
                                      Ok(LruPeek(shard_cache, h)[1])]
                    /\ history' = Append(history, [hash |-> h, chunk |-> FALSE])
                    /\ UNCHANGED <<pc, val, fetched, mem_read_nodes, cache_mode>>
               ELSE /\ pc' = [pc EXCEPT ![Main] = "wait"]
                    /\ Enter(Main, h)
                    /\ UNCHANGED <<shard_cache, owned, history>>
    /\ UNCHANGED <<aux, store, prefetching, locks>>

\* wait_for_prefetched: one poll of the registry.
MainWait ==
    /\ pc[Main] = "wait"
    /\ prefetchLock = NoThread
    /\ LET r == CheckPrefetched(prefetching, key[Main][1]) IN
       /\ prefetching' = r.reg
       /\ IF r.slot = None
          THEN Goto(Main, "reading")
          ELSE IF r.slot[1].state = "Pending"
          THEN UNCHANGED locals
          ELSE /\ pc' = [pc EXCEPT ![Main] = "put"]
               /\ val' = [val EXCEPT ![Main] = r.slot[1].val]
               /\ UNCHANGED <<key, result, fetched>>
       /\ sawPending' = (sawPending \/ r.slot = Some(Pending))
    /\ UNCHANGED <<mainAux, store, shard_cache, locks, owned, ghost>>

\* store.get(DBCol::State, key) returns to the execution thread.
MainRead(io) ==
    /\ pc[Main] = "reading"
    /\ IF io = "ok" /\ StoreGet(key[Main][1]) # None
       THEN /\ val' = [val EXCEPT ![Main] = StoreGet(key[Main][1])]
            /\ pc' = [pc EXCEPT ![Main] = "put"]
            /\ fetched' = [fetched EXCEPT ![Main] = TRUE]
            /\ UNCHANGED <<key, result>>
       ELSE Fail(Main, StoreError(io))
    /\ sawPending' = (sawPending /\ pc'[Main] # "idle")
    /\ UNCHANGED <<mainAux, store, shard_cache, prefetching, locks, owned, ghost>>

\* Admission into the shard cache, then the tail.
MainPut ==
    /\ pc[Main] = "put"
    /\ LET h == key[Main][1]
           v == val[Main][1] IN
       IF Admits(v)
       THEN /\ cacheLock = NoThread
            /\ IF poisoned
               THEN /\ Panic(Main)
                    /\ UNCHANGED <<shard_cache, owned, ghost>>
               ELSE /\ shard_cache' = LruPut(shard_cache, h, v, capacity)
                    /\ Counted(h, v)
       ELSE /\ shard_cache' = shard_cache
            /\ Counted(h, v)
    /\ sawPending' = FALSE
    /\ UNCHANGED <<mainAux, store, prefetching, locks>>

\* TrieCachingStorage::set_mode, between two calls of the execution thread.
SetMode(m) ==
    /\ pc[Main] = "idle"
    /\ m # cache_mode
    /\ cache_mode' = m
    /\ UNCHANGED <<chunk_cache, db_read_nodes, mem_read_nodes>>
    /\ UNCHANGED <<aux, store, shard_cache, prefetching, locks, locals, ghost>>

\* ------------------------------------------------ I/O threads: retrieve
\* TriePrefetchingStorage::retrieve_raw_bytes, called by a prefetcher's trie
\* lookup: the shard-cache lookup.  On a miss the cache guard stays held
\* while the registry is locked.
WorkerLookup(w, h) ==
    /\ pc[w] = "idle"
    /\ Issued < MaxOps
    /\ prefetches' = prefetches + 1
    /\ cacheLock = NoThread
    /\ IF poisoned
       THEN /\ Panic(w)
            /\ UNCHANGED <<shard_cache, cacheLock>>
       ELSE IF LruHas(shard_cache, h)
       THEN /\ shard_cache' = LruTouch(shard_cache, h)
            /\ key' = [key EXCEPT ![w] = Some(h)]
            /\ result' = [result EXCEPT ![w] = Ok(LruPeek(shard_cache, h)[1])]
            /\ UNCHANGED <<pc, val, fetched, cacheLock>>
       ELSE /\ cacheLock' = w
            /\ pc' = [pc EXCEPT ![w] = "lock_prefetching"]
            /\ Enter(w, h)
            /\ UNCHANGED shard_cache
    /\ UNCHANGED <<store, prefetching, prefetchLock, poisoned, owned, calls,
                   updates, history, chunkModeOnly>>

\* A prefetcher's trie lookup reaches the node h.
WorkerBegin(w, h) ==
    /\ WorkerLookup(w, h)
    /\ UNCHANGED aux

\* self.prefetching.lock() with the shard-cache guard held.
WorkerLockPrefetching(w) ==
    /\ pc[w] = "lock_prefetching"
    /\ prefetchLock = NoThread
    /\ prefetchLock' = w
    /\ Goto(w, "reserve")
    /\ UNCHANGED <<aux, store, shard_cache, prefetching, cacheLock, poisoned, owned,
                   ghost>>

\* Mutant of Drop: the guard stays alive.
DropForgotten(t) == t

\* The holder of the shard-cache mutex after std::mem::drop(guard) by t.
Drop(t) == NoThread

\* Mutant of Reserve: no slot is inserted.
ReserveNothing(reg, h) == reg

\* The registry after a worker that found no slot marks the hash.
Reserve(reg, h) == [reg EXCEPT ![h] = Some(Pending)]

\* Mutant of ContainsKey: a slot is never seen.
ContainsKeyNever(reg, h) == FALSE

\* prefetch_guard.contains_key(hash)
ContainsKey(reg, h) == reg[h] # None

\* contains_key: join the fetch in flight, or reserve the slot; both guards
\* are dropped.
WorkerReserve(w) ==
    /\ pc[w] = "reserve"
    /\ LET h == key[w][1] IN
       IF ContainsKey(prefetching, h)
       THEN /\ Goto(w, "wait")
            /\ UNCHANGED prefetching
       ELSE /\ prefetching' = Reserve(prefetching, h)
            /\ Goto(w, "reading")
    /\ cacheLock' = Drop(w)
    /\ prefetchLock' = NoThread
    /\ UNCHANGED <<aux, store, shard_cache, poisoned, owned, ghost>>

\* wait_for_prefetched: one poll of the registry.
WorkerWait(w) ==
    /\ pc[w] = "wait"
    /\ prefetchLock = NoThread
    /\ LET r == CheckPrefetched(prefetching, key[w][1]) IN
       /\ prefetching' = r.reg
       /\ IF r.slot = None
          THEN Goto(w, "fallback")
          ELSE IF r.slot[1].state = "Pending"
          THEN UNCHANGED locals
          ELSE ReturnOk(w, r.slot[1].val[1])
    /\ UNCHANGED <<aux, store, shard_cache, locks, owned, ghost>>

\* The slot vanished: shard_cache.get(hash).expect("must be prefetched by
\* now").  The panic unwinds with the cache guard alive and poisons it.
WorkerFallback(w) ==
    /\ pc[w] = "fallback"
    /\ cacheLock = NoThread
    /\ IF poisoned
       THEN /\ Panic(w)
            /\ UNCHANGED <<shard_cache, poisoned>>
       ELSE LET h == key[w][1] IN
            IF LruHas(shard_cache, h)
            THEN /\ shard_cache' = LruTouch(shard_cache, h)
                 /\ ReturnOk(w, LruPeek(shard_cache, h)[1])
                 /\ UNCHANGED poisoned
            ELSE /\ Panic(w)
                 /\ poisoned' = TRUE
                 /\ UNCHANGED shard_cache
    /\ UNCHANGED <<aux, store, prefetching, cacheLock, prefetchLock, owned, ghost>>

\* store.get(DBCol::State, key) returns to an I/O thread.  On an error the
\* call returns with `?` and the reserved slot is left as it is.
WorkerRead(w, io) ==
    /\ pc[w] = "reading"
    /\ IF io = "ok" /\ StoreGet(key[w][1]) # None
       THEN /\ val' = [val EXCEPT ![w] = StoreGet(key[w][1])]
            /\ pc' = [pc EXCEPT ![w] = "complete"]
            /\ fetched' = [fetched EXCEPT ![w] = TRUE]
            /\ UNCHANGED <<key, result>>
       ELSE Fail(w, StoreError(io))
    /\ UNCHANGED <<aux, store, shard_cache, prefetching, locks, owned, ghost>>

\* Mutant of Complete: an empty payload is stored.
CompleteEmpty(reg, h, v) == [reg EXCEPT ![h] = Some(Done(Payload(h, 0)))]

\* The registry after a worker stores what it fetched.
Complete(reg, h, v) == [reg EXCEPT ![h] = Some(Done(v))]

\* prefetching.insert(hash, Done(val)); the previous slot must be Pending.
WorkerComplete(w) ==
    /\ pc[w] = "complete"
    /\ prefetchLock = NoThread
    /\ LET h == key[w][1]
           v == val[w][1] IN
       /\ prefetching' = Complete(prefetching, h, v)
       /\ IF prefetching[h] = Some(Pending)
          THEN ReturnOk(w, v)
          ELSE Panic(w)
    /\ UNCHANGED <<aux, store, shard_cache, locks, owned, ghost>>

\* --------------------------------------------------- TrieCache callers
\* decode_value_with_rc: the payload of a raw value, none when the
\* reference count is not positive.
DecodeValueWithRc(raw) == IF raw.rc > 0 THEN Some(raw.val) ELSE None

\* Mutant of UpdateOne: a raw value that decodes to no payload is skipped.
UpdateOneSkipsUndecoded(c, op) ==
    IF op.value = None THEN LruPop(c, op.hash)
    ELSE LET value == DecodeValueWithRc(op.value[1]) IN
         IF value = None THEN c
         ELSE IF Admits(value[1])
              THEN LruPut(c, op.hash, value[1], capacity)
              ELSE c

\* One entry of TrieCache::update_cache.
UpdateOne(c, op) ==
    IF op.value = None THEN LruPop(c, op.hash)
    ELSE LET value == DecodeValueWithRc(op.value[1]) IN
         IF value = None THEN LruPop(c, op.hash)
         ELSE IF Admits(value[1])
              THEN LruPut(c, op.hash, value[1], capacity)
              ELSE c

RECURSIVE UpdateAll(_, _)
UpdateAll(c, ops) ==
    IF ops = <<>> THEN c ELSE UpdateAll(UpdateOne(c, Head(ops)), Tail(ops))

\* The entries a committed batch can carry: a deletion for any hash, and a
\* raw value (payload with its reference-count change) for a stored hash.
RefCounts == {0, 1}

BatchOps ==
    {[hash |-> h, value |-> None] : h \in Hashes} \cup
    {[hash |-> h, value |-> Some([val |-> StoreGet(h)[1], rc |-> rc])] :
        h \in {x \in Hashes : StoreGet(x) # None}, rc \in RefCounts}

\* TrieCache::update_cache: the whole batch under one guard.
UpdateCache(ops) ==
    /\ Issued < MaxOps
    /\ cacheLock = NoThread
    /\ ~poisoned
    /\ shard_cache' = UpdateAll(shard_cache, ops)
    /\ updates' = updates + 1
    /\ UNCHANGED <<aux, store, prefetching, locks, locals, owned, calls, prefetches,
                   history, chunkModeOnly>>

\* TrieCache::clear
Clear ==
    /\ Issued < MaxOps
    /\ cacheLock = NoThread
    /\ ~poisoned
    /\ shard_cache' = <<>>
    /\ updates' = updates + 1
    /\ UNCHANGED <<aux, store, prefetching, locks, locals, owned, calls, prefetches,
                   history, chunkModeOnly>>

\* ------------------------------------------------------- specification
IoOutcomes == {"ok", "fail"}

Next ==
    \/ \E h \in Hashes : MainBegin(h)
    \/ MainWait
    \/ \E io \in IoOutcomes : MainRead(io)
    \/ MainPut
    \/ \E m \in Modes : SetMode(m)
    \/ \E w \in Workers, h \in Hashes : WorkerBegin(w, h)
    \/ \E w \in Workers : WorkerLockPrefetching(w)
    \/ \E w \in Workers : WorkerReserve(w)
    \/ \E w \in Workers : WorkerWait(w)
    \/ \E w \in Workers : WorkerFallback(w)
    \/ \E w \in Workers, io \in IoOutcomes : WorkerRead(w, io)
    \/ \E w \in Workers : WorkerComplete(w)
    \/ \E n \in 1..MaxBatch : \E ops \in [1..n -> BatchOps] : UpdateCache(ops)
    \/ Clear

Spec == Init /\ [][Next]_vars

\* ------------------------------------------------ a TrieCache on its own
\* The hashes used to exercise a TrieCache beyond its capacity.
LruHashes == {"A", "B", "C", "D"}

\* Everything of the caching storage but the TrieCache and its lock.
cachingRest == <<store, prefetching, owned, locals, ghost>>

\* A TrieCache::with_capacity(cap) with no storage using it.
InitLru ==
    /\ InitCaching
    /\ store["B"] = Some(Payload("B", Small))
    /\ capacity \in 1..ShardCacheCap
    /\ InitTrieCache
    /\ InitRecording
    /\ InitRest

\* TrieCache::get
CacheGet(h) ==
    /\ Len(trace) < MaxTrace
    /\ cacheLock = NoThread
    /\ ~poisoned
    /\ shard_cache' = LruTouch(shard_cache, h)
    /\ trace' = Append(trace, [op |-> "get", hash |-> h,
                               out |-> LruPeek(shard_cache, h)])
    /\ UNCHANGED <<cachingRest, locks, capacity, batch, cursor, recAux, restAux>>

\* TrieCache::update_cache with the single entry (h, value) of a node below
\* the size limit: the insertion of h.
CachePut(h) ==
    /\ Len(trace) < MaxTrace
    /\ cacheLock = NoThread
    /\ ~poisoned
    /\ shard_cache' =
           UpdateAll(shard_cache,
                     <<[hash |-> h,
                        value |-> Some([val |-> Payload(h, Small), rc |-> 1])]>>)
    /\ trace' = Append(trace, [op |-> "put", hash |-> h, out |-> None])
    /\ UNCHANGED <<cachingRest, locks, capacity, batch, cursor, recAux, restAux>>

NextLru ==
    \/ \E h \in LruHashes : CacheGet(h)
    \/ \E h \in LruHashes : CachePut(h)

SpecLru == InitLru /\ [][NextLru]_vars

\* ------------------------------- a TrieCache shared by several users
\* The entries update_cache accepts: a deletion, or a raw value (payload
\* and reference count) of any size, for any hash.
CacheOps ==
    {[hash |-> h, value |-> None] : h \in Hashes} \cup
    {[hash |-> h, value |-> Some([val |-> Payload(h, n), rc |-> rc])] :
        h \in Hashes, n \in {Small, Large}, rc \in RefCounts}

\* Mutant of Guard: the mutex is released again at once.
GuardDropped(t) == NoThread

\* The holder of the mutex while the guard taken by thread t is alive.
Guard(t) == t

\* Mutant of NextEntry: the batch is walked from its end.
NextEntryReversed(ops, n) == ops[Len(ops) - n]

\* The entry the loop of update_cache handles after n entries.
NextEntry(ops, n) == ops[n + 1]

InitCache ==
    /\ InitCaching
    /\ store["B"] = Some(Payload("B", Small))
    /\ capacity \in 1..ShardCacheCap
    /\ InitTrieCache
    /\ InitRecording
    /\ InitRest

\* TrieCache::update_cache: the guard is taken.
UpdateLock(ops) ==
    /\ Issued < MaxOps
    /\ batch = <<>>
    /\ cacheLock = NoThread
    /\ ~poisoned
    /\ cacheLock' = Guard(Main)
    /\ batch' = ops
    /\ cursor' = 0
    /\ updates' = updates + 1
    /\ UNCHANGED <<store, shard_cache, prefetching, prefetchLock, poisoned,
                   owned, locals, calls, prefetches, history, chunkModeOnly,
                   capacity, trace, recAux, restAux>>

\* TrieCache::update_cache: one turn of the loop.
UpdateEntry ==
    /\ batch # <<>>
    /\ cursor < Len(batch)
    /\ shard_cache' = UpdateOne(shard_cache, NextEntry(batch, cursor))
    /\ cursor' = cursor + 1
    /\ UNCHANGED <<cachingRest, locks, capacity, batch, trace, recAux, restAux>>

\* TrieCache::update_cache returns and the guard is dropped.
UpdateUnlock ==
    /\ batch # <<>>
    /\ cursor = Len(batch)
    /\ cacheLock' = NoThread
    /\ batch' = <<>>
    /\ cursor' = 0
    /\ UNCHANGED <<cachingRest, shard_cache, prefetchLock, poisoned, capacity,
                   trace, recAux, restAux>>

\* Another user of the cache: shard_cache.0.lock().get(hash).
UserGet(w, h) ==
    /\ Issued < MaxOps
    /\ cacheLock = NoThread
    /\ ~poisoned
    /\ prefetches' = prefetches + 1
    /\ shard_cache' = LruTouch(shard_cache, h)
    /\ key' = [key EXCEPT ![w] = Some(h)]
    /\ result' = [result EXCEPT ![w] =
                      IF LruHas(shard_cache, h)
                      THEN Ok(LruPeek(shard_cache, h)[1]) ELSE NoResult]
    /\ UNCHANGED <<store, prefetching, locks, owned, pc, val, fetched, calls,
                   updates, history, chunkModeOnly, aux>>

\* Another user of the cache: the admission at the end of a retrieve,
\* shard_cache.0.lock().put(hash, val).
UserPut(w, h) ==
    /\ Issued < MaxOps
    /\ cacheLock = NoThread
    /\ ~poisoned
    /\ prefetches' = prefetches + 1
    /\ shard_cache' = LruPut(shard_cache, h, Payload(h, Small), capacity)
    /\ key' = [key EXCEPT ![w] = Some(h)]
    /\ result' = [result EXCEPT ![w] = Ok(Payload(h, Small))]
    /\ UNCHANGED <<store, prefetching, locks, owned, pc, val, fetched, calls,
                   updates, history, chunkModeOnly, aux>>

NextCache ==
    \/ \E n \in 1..MaxBatch : \E ops \in [1..n -> CacheOps] : UpdateLock(ops)
    \/ UpdateEntry
    \/ UpdateUnlock
    \/ \E w \in Workers, h \in Hashes : UserGet(w, h)
    \/ \E w \in Workers, h \in Hashes : UserPut(w, h)
    \/ Clear

SpecCache == InitCache /\ [][NextCache]_vars

\* ------------------------- TrieRecordingStorage, TrieMemoryPartialStorage
\* Everything of the caching storage that the two storages do not share.
cachingIdle_noRest ==
    <<shard_cache, chunk_cache, cache_mode, prefetching, db_read_nodes,
      mem_read_nodes, locks, val, fetched, calls, prefetches, updates,
      chunkModeOnly, capacity, batch, cursor>>

cachingIdle == <<cachingIdle_noRest, restAux>>

\* A fresh TrieRecordingStorage over the store.
InitRecord ==
    /\ InitCaching
    /\ capacity = ShardCacheCap
    /\ InitTrieCache
    /\ InitRecording
    /\ InitRest

\* Mutant of RecordInsert: the node is not recorded.
RecordInsertSkipped(rec, h, v) == rec

\* self.recorded.borrow_mut().insert(*hash, val.clone())
RecordInsert(rec, h, v) == [rec EXCEPT ![h] = Some(v)]

\* What TrieRecordingStorage::retrieve_raw_bytes(h) returns when the store
\* read ends as io.
RecordOutcome(h, io) ==
    IF recorded[h] # None THEN Ok(recorded[h][1])
    ELSE IF io = "ok" /\ StoreGet(h) # None THEN Ok(StoreGet(h)[1])
    ELSE Err(StoreError(io))

\* TrieRecordingStorage::retrieve_raw_bytes
RecordRetrieve(h, io) ==
    /\ pc[Main] = "idle"
    /\ Len(trace) < MaxTrace
    /\ recorded[h] # None => io = "ok"
    /\ trace' = Append(trace, [op |-> "retrieve", hash |-> h,
                               out |-> RecordOutcome(h, io)])
    /\ key' = [key EXCEPT ![Main] = Some(h)]
    /\ result' = [result EXCEPT ![Main] = RecordOutcome(h, io)]
    /\ IF recorded[h] # None
       THEN UNCHANGED <<recorded, store_reads>>
       ELSE /\ store_reads' = [store_reads EXCEPT ![h] = @ + 1]
            /\ IF io = "ok" /\ StoreGet(h) # None
               THEN recorded' = RecordInsert(recorded, h, StoreGet(h)[1])
               ELSE UNCHANGED recorded
    /\ UNCHANGED <<store, cachingIdle, pc, history, recorded_storage,
                   visited_nodes, replayed>>

\* A TrieMemoryPartialStorage is built from the recorded nodes, with
\* nothing visited.
BuildPartial ==
    /\ pc[Main] = "idle"
    /\ pc' = [pc EXCEPT ![Main] = "replay"]
    /\ recorded_storage' = recorded
    /\ visited_nodes' = {}
    /\ replayed' = 0
    /\ key' = [key EXCEPT ![Main] = None]
    /\ result' = [result EXCEPT ![Main] = NoResult]
    /\ UNCHANGED <<store, cachingIdle, history, trace, recorded, store_reads>>

\* Mutant of Visit: no hash is ever marked.
VisitNever(visited, h, found) == visited

\* Mutant of Visit: the hash is marked whatever the lookup gave.
VisitAlways(visited, h, found) == visited \cup {h}

\* visited_nodes after a lookup of h: if result.is_ok() { insert(*hash) }
Visit(visited, h, found) == IF found THEN visited \cup {h} ELSE visited

\* Mutant of PartialOutcome: a missing node yields an empty payload.
PartialOutcomeFabricated(h) ==
    IF recorded_storage[h] # None THEN Ok(recorded_storage[h][1])
    ELSE Ok(Payload(h, 0))

\* What TrieMemoryPartialStorage::retrieve_raw_bytes(h) returns.
PartialOutcome(h) ==
    IF recorded_storage[h] # None THEN Ok(recorded_storage[h][1])
    ELSE Err("TrieNodeMissing")

\* TrieMemoryPartialStorage::retrieve_raw_bytes, for the next hash of the
\* recorded sequence.
PartialRetrieve ==
    /\ pc[Main] = "replay"
    /\ replayed < Len(trace)
    /\ LET h == trace[replayed + 1].hash IN
       /\ key' = [key EXCEPT ![Main] = Some(h)]
       /\ result' = [result EXCEPT ![Main] = PartialOutcome(h)]
       /\ visited_nodes' =
              Visit(visited_nodes, h, PartialOutcome(h).kind = "Ok")
       /\ history' =
              IF PartialOutcome(h).kind = "Ok"
              THEN Append(history, [hash |-> h, chunk |-> FALSE])
              ELSE history
    /\ replayed' = replayed + 1
    /\ UNCHANGED <<store, cachingIdle, pc, trace, recorded, store_reads,
                   recorded_storage>>

NextRecord ==
    \/ \E h \in Hashes, io \in IoOutcomes : RecordRetrieve(h, io)
    \/ BuildPartial
    \/ PartialRetrieve

SpecRecord == InitRecord /\ [][NextRecord]_vars

\* ------------------------------------------------- keys of column State
\* n bytes, all zero but byte i, which is b.
Unit(n, i, b) == [j \in 1..n |-> IF j = i THEN b ELSE 0]

\* The byte values used.
Bytes == {0, 1, 255}

\* ShardUId values, as the 8 bytes of to_bytes(): they differ in the first
\* or in the last byte.
ShardUIds == {Unit(UidLen, 1, 0), Unit(UidLen, 1, 1), Unit(UidLen, UidLen, 1)}

\* CryptoHash values, as their 32 bytes.
NodeHashes ==
    {Unit(KeyLen - UidLen, 1, 0), Unit(KeyLen - UidLen, 1, 1),
     Unit(KeyLen - UidLen, KeyLen - UidLen, 255)}

\* Mutant of GetKey: the hash is copied in front of the shard uid.
GetKeyHashFirst(S, H) ==
    [i \in 1..KeyLen |-> IF i <= KeyLen - UidLen THEN H[i]
                         ELSE S[i - (KeyLen - UidLen)]]

\* get_key_from_shard_uid_and_hash: key[0..8] and key[8..] of a [0; 40].
GetKey(S, H) ==
    [i \in 1..KeyLen |-> IF i <= UidLen THEN S[i] ELSE H[i - UidLen]]

\* Mutant of FromKey: the length is not looked at.
FromKeyUnchecked(k) ==
    LET n == IF Len(k) < UidLen THEN Len(k) ELSE UidLen IN
    Ok([id |-> SubSeq(k, 1, n), hash |-> SubSeq(k, n + 1, Len(k))])

\* get_shard_uid_and_hash_from_key: Err(io::Error of ErrorKind::Other), or
\* Ok((id, hash)) from key[..8] and key[8..].
FromKey(k) ==
    IF Len(k) # KeyLen THEN Err("Other")
    ELSE Ok([id |-> SubSeq(k, 1, UidLen),
             hash |-> SubSeq(k, UidLen + 1, Len(k))])

\* Everything but the key functions' inputs and outputs.
keyIdle == <<store, cachingIdle_noRest, pc, key, result, history, trace,
             recAux, ioAux, sawPending>>

\* A shard uid and a node hash are given.
InitKey ==
    /\ InitCaching
    /\ store["B"] = Some(Payload("B", Small))
    /\ capacity = ShardCacheCap
    /\ InitTrieCache
    /\ InitRecording
    /\ uid \in ShardUIds
    /\ node_hash \in NodeHashes
    /\ store_key = <<>>
    /\ decoded = NoResult
    /\ outbox = [w \in Workers |-> <<>>]
    /\ taken = [w \in Workers |-> 0]
    /\ sawPending = FALSE

\* The key of the node is composed.
ComposeKey ==
    /\ store_key' = GetKey(uid, node_hash)
    /\ decoded' = NoResult
    /\ UNCHANGED <<keyIdle, uid, node_hash>>

\* A key that lost its last byte.
TruncateKey ==
    /\ store_key # <<>>
    /\ Len(store_key) > KeyLen - MaxKeySkew
    /\ store_key' = SubSeq(store_key, 1, Len(store_key) - 1)
    /\ decoded' = NoResult
    /\ UNCHANGED <<keyIdle, uid, node_hash>>

\* A key with one more byte at its end.
ExtendKey(b) ==
    /\ store_key # <<>>
    /\ Len(store_key) < KeyLen + MaxKeySkew
    /\ store_key' = Append(store_key, b)
    /\ decoded' = NoResult
    /\ UNCHANGED <<keyIdle, uid, node_hash>>

\* get_shard_uid_and_hash_from_key(store_key)
DecodeKey ==
    /\ decoded = NoResult
    /\ decoded' = FromKey(store_key)
    /\ UNCHANGED <<keyIdle, uid, node_hash, store_key>>

NextKey ==
    \/ ComposeKey
    \/ TruncateKey
    \/ \E b \in Bytes : ExtendKey(b)
    \/ DecodeKey

SpecKey == InitKey /\ [][NextKey]_vars

\* ------------------------------------------------ I/O threads' channels
\* FireAndForgetIoRequest, and the hang-up of a channel whose sender is
\* dropped.
Prefetch(h) == <<"Prefetch", h>>
StopSelf == <<"StopSelf">>
Hangup == <<"Hangup">>

\* rx.recv() after n messages were received: the channel is first in,
\* first out.
NextRequest(q, n) == q[n + 1]

\* Nobody retrieves on the execution thread, no key function runs.
ioIdle == <<cacheAux, recAux, keyAux, sawPending>>

\* Two I/O threads were started over an empty shard cache.
InitIo ==
    /\ InitCaching
    /\ capacity = ShardCacheCap
    /\ InitTrieCache
    /\ InitRecording
    /\ InitRest

\* tx.send(msg) to the I/O thread w; nothing can be sent once the sender is
\* dropped.
Send(w, msg) ==
    /\ Len(outbox[w]) < MaxQueue
    /\ IF outbox[w] = <<>> THEN TRUE ELSE outbox[w][Len(outbox[w])] # Hangup
    /\ outbox' = [outbox EXCEPT ![w] = Append(@, msg)]
    /\ UNCHANGED <<ioIdle, taken, store, shard_cache, prefetching, locks, owned,
                   locals, ghost>>

\* One turn of the loop of start_io_thread: rx.recv(), then the lookup of a
\* Prefetch request begins, or the thread returns.
Receive(w) ==
    /\ pc[w] = "idle"
    /\ taken[w] < Len(outbox[w])
    /\ taken' = [taken EXCEPT ![w] = @ + 1]
    /\ LET req == NextRequest(outbox[w], taken[w]) IN
       IF req[1] = "Prefetch"
       THEN WorkerLookup(w, req[2])
       ELSE /\ pc' = [pc EXCEPT ![w] = "exited"]
            /\ UNCHANGED <<key, val, result, fetched, store, shard_cache,
                           prefetching, locks, owned, ghost>>
    /\ UNCHANGED <<ioIdle, outbox>>

Requests == {Prefetch(h) : h \in Hashes} \cup {StopSelf, Hangup}

NextIo ==
    \/ \E w \in Workers, msg \in Requests : Send(w, msg)
    \/ \E w \in Workers : Receive(w)
    \/ \E w \in Workers : WorkerLockPrefetching(w)
    \/ \E w \in Workers : WorkerReserve(w)
    \/ \E w \in Workers : WorkerWait(w)
    \/ \E w \in Workers : WorkerFallback(w)
    \/ \E w \in Workers, io \in IoOutcomes : WorkerRead(w, io)
    \/ \E w \in Workers : WorkerComplete(w)

SpecIo == InitIo /\ [][NextIo]_vars

\* ------------------------------------------------- fair scheduling
\* Every node is stored and the reads of the I/O threads succeed.
InitLive ==
    /\ Init
    /\ \A h \in Hashes : store[h] # None

\* The steps of the execution thread inside retrieve_raw_bytes.
MainStep ==
    \/ MainWait
    \/ \E io \in IoOutcomes : MainRead(io)
    \/ MainPut

\* The steps of an I/O thread inside retrieve_raw_bytes.
WorkerStep(w) ==
    \/ WorkerLockPrefetching(w)
    \/ WorkerReserve(w)
    \/ WorkerWait(w)
    \/ WorkerFallback(w)
    \/ WorkerRead(w, "ok")
    \/ WorkerComplete(w)

NextLive ==
    \/ \E h \in Hashes : MainBegin(h)
    \/ MainStep
    \/ \E w \in Workers, h \in Hashes : WorkerBegin(w, h)
    \/ \E w \in Workers : WorkerStep(w)

\* Every thread that can take a step is scheduled in the end.
Fairness ==
    /\ WF_vars(MainStep)
    /\ \A w \in Workers : WF_vars(WorkerStep(w))

SpecLive == InitLive /\ [][NextLive]_vars /\ Fairness

\* ------------------------------------- I/O threads under fair scheduling
\* The Prefetch requests sent so far, over all channels.
PrefetchesSent ==
    Cardinality({x \in Workers \X (1..MaxQueue) :
                    /\ x[2] <= Len(outbox[x[1]])
                    /\ outbox[x[1]][x[2]][1] = "Prefetch"})

\* tx.send(msg), as long as the workload has lookups left for what is sent.
SendInBudget(w, msg) ==
    /\ msg[1] = "Prefetch" => PrefetchesSent < MaxOps
    /\ Send(w, msg)

\* The steps of an I/O thread inside retrieve_raw_bytes, whatever the store
\* read returns: a value, absence or an I/O error.
WorkerStepAny(w) ==
    \/ WorkerLockPrefetching(w)
    \/ WorkerReserve(w)
    \/ WorkerWait(w)
    \/ WorkerFallback(w)
    \/ \E io \in IoOutcomes : WorkerRead(w, io)
    \/ WorkerComplete(w)

NextIoFair ==
    \/ \E w \in Workers, msg \in Requests : SendInBudget(w, msg)
    \/ \E w \in Workers : Receive(w)
    \/ \E w \in Workers : WorkerStepAny(w)

\* Every I/O thread that can receive or take a step is scheduled in the end.
FairnessIo ==
    \A w \in Workers : WF_vars(Receive(w)) /\ WF_vars(WorkerStepAny(w))

SpecIoFair == InitIo /\ [][NextIoFair]_vars /\ FairnessIo

\* ============================================================== claims
\* A thread is inside retrieve_raw_bytes.
InCall(t) == pc[t] \notin {"idle", "panicked"}

\* The step in which thread t gets Some(value) from wait_for_prefetched.
TakesDone(t) ==
    /\ pc[t] = "wait"
    /\ IF t = Main THEN pc'[t] = "put"
       ELSE pc'[t] = "idle" /\ result'[t].kind = "Ok"

\* The value thread t holds right after TakesDone(t).
Taken(t) == IF t = Main THEN val'[t] ELSE result'[t].val

\* C1: among retrieve calls for the same uncached hash that overlap in time,
\* the persistent store is read by at most one of them, and the callers hold
\* the same payload.
C1_OneFetchPerHash ==
    \A t1, t2 \in Threads :
        (t1 # t2 /\ InCall(t1) /\ InCall(t2) /\ key[t1] = key[t2])
            => /\ ~(fetched[t1] /\ fetched[t2])
               /\ (val[t1] # None /\ val[t2] # None => val[t1] = val[t2])

\* C2: in every reachable state at most one store read is in flight per
\* hash, counting the execution thread and all I/O threads.
C2_OneInFlightPerHash ==
    \A h \in Hashes :
        Cardinality({t \in Threads : pc[t] = "reading" /\ key[t] = Some(h)}) <= 1

\* C3: a thread obtains a payload from the registry only from a Done slot
\* for its hash, gets exactly that slot's payload, and the slot is gone from
\* the registry in the same step, so no second call can return it.
C3_SingleConsumption ==
    [][\A t \in Threads :
          TakesDone(t) =>
              LET h == key[t][1] IN
              /\ prefetching[h] # None
              /\ prefetching[h][1].state = "Done"
              /\ Taken(t) = prefetching[h][1].val
              /\ prefetching'[h] = None]_vars

\* C3 witness: the execution thread holds a payload it took out of a Done
\* slot (it did not read the store) and the slot is gone.
C3_Witness ==
    /\ pc[Main] = "put"
    /\ ~fetched[Main]
    /\ prefetching[key[Main][1]] = None

ChunkHits == Cardinality({i \in 1..Len(history) : history[i].chunk})
OkMisses == Cardinality({i \in 1..Len(history) : ~history[i].chunk})

\* C5: mem_reads is the number of calls that hit the chunk cache and
\* db_reads the number of successful calls that did not, whatever the mode
\* and the prefetch activity.
C5_ReadAccounting ==
    /\ mem_read_nodes = ChunkHits
    /\ db_read_nodes = OkMisses

\* C5 witness: both kinds of reads were counted while I/O threads ran.
C5_Witness ==
    /\ mem_read_nodes >= 1
    /\ db_read_nodes >= 1
    /\ prefetches >= 1

\* The hashes of the calls i..j of the history.
HistHashes(i, j) == {history[n].hash : n \in i..j}

\* The history is K reads of K distinct hashes followed by K reads of the
\* same hashes, each once, all in CachingChunk mode, with no other call.
KThenK(K) ==
    /\ chunkModeOnly
    /\ calls = 2 * K
    /\ Len(history) = 2 * K
    /\ pc[Main] = "idle"
    /\ Cardinality(HistHashes(1, K)) = K
    /\ Cardinality(HistHashes(K + 1, 2 * K)) = K
    /\ HistHashes(K + 1, 2 * K) = HistHashes(1, K)

\* C6: after K distinct uncached reads and K repeated reads in CachingChunk
\* mode, db_reads = K and mem_reads = K.
C6_KDistinctThenRepeated ==
    \A K \in 1..MaxOps :
        KThenK(K) => db_read_nodes = K /\ mem_read_nodes = K

\* C6 witness: the case K = 2.
C6_Witness == KThenK(2) /\ db_read_nodes = 2 /\ mem_read_nodes = 2

\* The step in which the execution thread enters retrieve_raw_bytes(h).
MainEnters(h) == calls' = calls + 1 /\ key'[Main] = Some(h)

\* C7 as stated: a retrieve of a hash that is in the chunk cache or in the
\* shard cache returns without a store read and leaves db_reads unchanged.
C7_CachedReadOnlyCountsMem ==
    [][\A h \in Hashes :
          (MainEnters(h) /\ (chunk_cache[h] # None \/ LruHas(shard_cache, h)))
              => /\ pc'[Main] = "idle"
                 /\ db_read_nodes' = db_read_nodes]_vars

\* C7 amended: a retrieve of a hash that is in the chunk cache or in the
\* shard cache returns its payload without a store read; a chunk-cache hit
\* changes only mem_reads (+1), a shard-cache hit changes only db_reads (+1).
C7_CachedReadNoStore ==
    [][\A h \in Hashes :
          (MainEnters(h) /\ (chunk_cache[h] # None \/ LruHas(shard_cache, h)))
              => /\ pc'[Main] = "idle"
                 /\ result'[Main].kind = "Ok"
                 /\ IF chunk_cache[h] # None
                    THEN /\ mem_read_nodes' = mem_read_nodes + 1
                         /\ db_read_nodes' = db_read_nodes
                    ELSE /\ mem_read_nodes' = mem_read_nodes
                         /\ db_read_nodes' = db_read_nodes + 1]_vars

\* C7 witness: with no prefetch and no cache update, "A" was read twice in
\* CachingShard mode: the second read was a shard-cache hit.
C7_Witness ==
    /\ prefetches = 0
    /\ updates = 0
    /\ Len(history) = 2
    /\ history[1] = [hash |-> "A", chunk |-> FALSE]
    /\ history[2] = [hash |-> "A", chunk |-> FALSE]
    /\ result[Main].kind = "Ok"

\* C8: every successful retrieve, of the execution thread or of an I/O thread,
\* in either mode, returns the payload the persistent store holds for the hash.
C8_ResolvesToStore ==
    \A t \in Threads :
        result[t].kind = "Ok" => key[t] # None /\ result[t].val = store[key[t][1]]

\* C8 witness: the execution thread in CachingChunk mode and an I/O thread
\* have both returned a payload.
C8_Witness ==
    /\ cache_mode = "CachingChunk"
    /\ result[Main].kind = "Ok"
    /\ \E w \in Workers : result[w].kind = "Ok"

\* C9: when the execution thread's store read does not yield a payload, the
\* call returns StorageInconsistentState only for an absent hash and
\* StorageInternalError otherwise, an absent hash never yields a payload, and
\* the counters, both caches and the registry are as the call found them.
C9_StoreErrors ==
    [][/\ (pc[Main] = "reading" /\ pc'[Main] # "reading") =>
            LET h == key[Main][1] IN
            /\ store[h] = None => pc'[Main] = "idle"
            /\ pc'[Main] = "idle" =>
                  /\ result'[Main].kind \in
                         {"StorageInconsistentState", "StorageInternalError"}
                  /\ result'[Main].kind = "StorageInconsistentState"
                         <=> store[h] = None /\ result'[Main].kind # "StorageInternalError"
                  /\ UNCHANGED <<db_read_nodes, mem_read_nodes, chunk_cache,
                                 shard_cache, prefetching>>
       /\ (pc[Main] # pc'[Main] /\ pc'[Main] \in {"wait", "reading"}) =>
            UNCHANGED <<db_read_nodes, mem_read_nodes, chunk_cache,
                        shard_cache, prefetching>>]_vars

\* C9 witness: the execution thread has returned StorageInconsistentState
\* after an earlier read was counted.
C9_Witness ==
    /\ result[Main].kind = "StorageInconsistentState"
    /\ db_read_nodes >= 1

\* C10: the shard cache never holds a payload of the limit size or more, and
\* a retrieve of such a payload returns it.
C10_AdmissionThreshold ==
    /\ [](\A i \in 1..Len(shard_cache) :
             shard_cache[i].val.len < TRIE_LIMIT_CACHED_VALUE_SIZE)
    /\ [][(pc[Main] = "put" /\ pc'[Main] # "put"
              /\ val[Main][1].len >= TRIE_LIMIT_CACHED_VALUE_SIZE)
             => result'[Main] = Ok(val[Main][1])]_vars

\* C10 witness: the execution thread returned a payload of the limit size
\* after update_cache ran, and the shard cache holds another entry.
C10_Witness ==
    /\ result[Main].kind = "Ok"
    /\ result[Main].val[1].len >= TRIE_LIMIT_CACHED_VALUE_SIZE
    /\ updates >= 1
    /\ shard_cache # <<>>

\* ------------------------------------------------------------- C11..C20
\* The position of the last operation of the trace that named hash h.
LastAccess(h) ==
    IF \E i \in 1..Len(trace) : trace[i].hash = h
    THEN CHOOSE i \in 1..Len(trace) :
             /\ trace[i].hash = h
             /\ \A j \in (i + 1)..Len(trace) : trace[j].hash # h
    ELSE 0

\* The cached hash whose last access is the oldest.
Victim ==
    CHOOSE h \in LruKeys(shard_cache) :
        \A g \in LruKeys(shard_cache) : LastAccess(h) <= LastAccess(g)

\* The step appends operation op on hash h to the trace.
Does(op, h) ==
    /\ Len(trace') = Len(trace) + 1
    /\ trace'[Len(trace')].op = op
    /\ trace'[Len(trace')].hash = h

\* The trace is exactly the given operations, in order.
TraceIs(ops) ==
    /\ Len(trace) = Len(ops)
    /\ \A i \in 1..Len(ops) :
           trace[i].op = ops[i][1] /\ trace[i].hash = ops[i][2]

\* C11: the shard cache never holds more than `capacity` entries; inserting
\* a new hash into a full cache evicts exactly the entry accessed least
\* recently, where get and put both count as accesses; a get returns the
\* cached payload and evicts nothing.  With capacity 2: after inserting A,
\* B, C the cache holds {B, C}, get(A) is none, get(B) returns B, and
\* inserting D then leaves {B, D}.
C11_LruEviction ==
    /\ [](Len(shard_cache) <= capacity)
    /\ [][\A h \in LruHashes :
            /\ (Does("put", h) /\ ~LruHas(shard_cache, h)) =>
                  IF Len(shard_cache) = capacity
                  THEN LruKeys(shard_cache') =
                           (LruKeys(shard_cache) \ {Victim}) \cup {h}
                  ELSE LruKeys(shard_cache') = LruKeys(shard_cache) \cup {h}
            /\ (Does("put", h) /\ LruHas(shard_cache, h)) =>
                  LruKeys(shard_cache') = LruKeys(shard_cache)
            /\ Does("get", h) =>
                  /\ LruKeys(shard_cache') = LruKeys(shard_cache)
                  /\ trace'[Len(trace')].out =
                         IF h \in LruKeys(shard_cache)
                         THEN Some(Payload(h, Small)) ELSE None]_vars
    /\ [](capacity = 2 =>
            /\ TraceIs(<<<<"put", "A">>, <<"put", "B">>, <<"put", "C">>>>)
                  => LruKeys(shard_cache) = {"B", "C"}
            /\ TraceIs(<<<<"put", "A">>, <<"put", "B">>, <<"put", "C">>,
                         <<"get", "A">>>>)
                  => trace[4].out = None
            /\ TraceIs(<<<<"put", "A">>, <<"put", "B">>, <<"put", "C">>,
                         <<"get", "A">>, <<"get", "B">>>>)
                  => trace[5].out = Some(Payload("B", Small))
            /\ TraceIs(<<<<"put", "A">>, <<"put", "B">>, <<"put", "C">>,
                         <<"get", "A">>, <<"get", "B">>, <<"put", "D">>>>)
                  => LruKeys(shard_cache) = {"B", "D"})

\* C11 witness: the example has run to its end on a cache of capacity 2.
C11_Witness ==
    /\ capacity = 2
    /\ TraceIs(<<<<"put", "A">>, <<"put", "B">>, <<"put", "C">>,
                 <<"get", "A">>, <<"get", "B">>, <<"put", "D">>>>)
    /\ LruKeys(shard_cache) = {"B", "D"}

\* C12: when a retrieve of the execution thread that missed both caches
\* returns payload P, from the store or out of a Done slot, P is what the
\* call returns, a P below the size limit is what the shard cache then maps
\* the hash to, and the slot the call took P from left the registry when it
\* was taken.
C12_AdmittedAfterMiss ==
    [][/\ (pc[Main] = "put" /\ pc'[Main] = "idle") =>
            LET h == key[Main][1]
                P == val[Main][1] IN
            /\ result'[Main] = Ok(P)
            /\ fetched[Main] => Some(P) = store[h]
            /\ P.len < TRIE_LIMIT_CACHED_VALUE_SIZE =>
                   LruPeek(shard_cache', h) = Some(P)
       /\ TakesDone(Main) =>
            LET h == key[Main][1] IN
            /\ val'[Main] = prefetching[h][1].val
            /\ prefetching'[h] = None]_vars

\* C12 witness: the execution thread's only call returned a payload that
\* is now in the shard cache, and it took it out of the registry: an I/O
\* thread that joined that fetch still waits on the slot, which is gone.
C12_Witness ==
    /\ calls = 1
    /\ prefetches = 2
    /\ updates = 0
    /\ pc[Main] = "idle"
    /\ result[Main].kind = "Ok"
    /\ \E h \in Hashes :
          /\ key[Main] = Some(h)
          /\ prefetching[h] = None
          /\ LruPeek(shard_cache, h) = result[Main].val
          /\ \E w \in Workers : pc[w] = "wait" /\ key[w] = Some(h)

\* update_cache has handled every entry of its batch and still holds the
\* guard.
BatchDone == batch # <<>> /\ cursor = Len(batch)

\* Hash h has an entry in the batch.
InBatch(h) == \E i \in 1..Len(batch) : batch[i].hash = h

\* The position of the last entry of the batch for hash h.
LastEntry(h) ==
    CHOOSE i \in 1..Len(batch) :
        /\ batch[i].hash = h
        /\ \A j \in (i + 1)..Len(batch) : batch[j].hash # h

\* The payload an entry carries: none for a deletion and for a raw value
\* that decodes to no payload.
Carried(op) ==
    IF op.value = None THEN None ELSE DecodeValueWithRc(op.value[1])

\* The entry inserts its payload.
Inserts(op) ==
    Carried(op) # None /\ Carried(op)[1].len < TRIE_LIMIT_CACHED_VALUE_SIZE

\* The other hashes the batch inserts after the last entry of h.
InsertedAfter(h) ==
    {batch[j].hash : j \in {i \in (LastEntry(h) + 1)..Len(batch) :
                               Inserts(batch[i])}}

\* C13 as stated: after a batch, a hash whose last entry is a deletion is
\* absent, and a hash whose last entry is a value below the size limit maps
\* to that payload.
C13_LastEntryWins ==
    BatchDone =>
        \A h \in Hashes :
            InBatch(h) =>
                LET e == batch[LastEntry(h)] IN
                /\ e.value = None => ~LruHas(shard_cache, h)
                /\ Inserts(e) => LruPeek(shard_cache, h) = Carried(e)

\* C13 amended: after a batch, a hash whose last entry is a deletion is
\* absent, and a hash whose last entry is a value below the size limit maps
\* to that payload unless the batch goes on to insert at least `capacity`
\* other hashes, which evict it.
C13_LastEntryWinsWithinCapacity ==
    BatchDone =>
        \A h \in Hashes :
            InBatch(h) =>
                LET e == batch[LastEntry(h)] IN
                /\ e.value = None => ~LruHas(shard_cache, h)
                /\ (Inserts(e) /\ Cardinality(InsertedAfter(h)) < capacity)
                       => LruPeek(shard_cache, h) = Carried(e)

\* C13 witness: a batch that deletes a hash and then inserts it again has
\* been applied, and the hash is cached.
C13_Witness ==
    /\ BatchDone
    /\ Len(batch) = 2
    /\ batch[1].hash = batch[2].hash
    /\ batch[1].value = None
    /\ Inserts(batch[2])
    /\ LruHas(shard_cache, batch[2].hash)

\* C14: after a batch, a hash whose last entry carries a payload of the
\* size limit or more is absent from the shard cache.
C14_OversizedEvicts ==
    BatchDone =>
        \A h \in Hashes :
            InBatch(h) =>
                LET e == batch[LastEntry(h)] IN
                (Carried(e) # None
                     /\ Carried(e)[1].len >= TRIE_LIMIT_CACHED_VALUE_SIZE)
                    => ~LruHas(shard_cache, h)

\* The step is made by a user of the cache other than the update_cache in
\* progress: a get or a put of a retrieve, or a clear.
UserStep ==
    \/ prefetches' # prefetches
    \/ updates' # updates /\ batch' = batch

\* C15: while update_cache is between the first and the last entry of its
\* batch it holds the cache lock, and no get, put or clear of another user
\* takes place before the whole batch is applied and the guard is dropped.
C15_BatchAtomic ==
    /\ [](batch # <<>> => cacheLock = Main)
    /\ [][UserStep => batch = <<>> /\ batch' = <<>>]_vars

\* C15 witness: update_cache has applied one entry of two, after another
\* user of the cache read an entry from it.
C15_Witness ==
    /\ Len(batch) = 2
    /\ cursor = 1
    /\ shard_cache # <<>>
    /\ \E w \in Workers : result[w].kind = "Ok"

\* C16 as stated: no thread holds the shard-cache lock and the registry
\* lock at the same time.
C16_NoNestedLocking ==
    \A t \in Threads : ~(cacheLock = t /\ prefetchLock = t)

\* C16 amended: the two locks nest in one order only.  An I/O thread takes
\* the registry lock while it holds the shard-cache lock and gives both
\* back before it reads the store or waits; no thread takes the shard-cache
\* lock while it holds the registry lock; the execution thread never holds
\* both.
C16_OneLockOrder ==
    /\ [](~(cacheLock = Main /\ prefetchLock = Main))
    /\ [](\A t \in Threads :
             (cacheLock = t \/ prefetchLock = t)
                 => pc[t] \in {"lock_prefetching", "reserve"})
    /\ [](\A t \in Threads : prefetchLock = t => cacheLock = t)
    /\ [][\A t \in Threads :
             (cacheLock # t /\ cacheLock' = t) => prefetchLock # t]_vars

\* C16 witness: an I/O thread holds both locks while the execution thread
\* is waiting to poll the registry.
C16_Witness ==
    /\ pc[Main] = "wait"
    /\ \E w \in Workers : cacheLock = w /\ prefetchLock = w

\* The calls of the recorded sequence for hash h that returned a payload,
\* and those that returned an error.
Successes(h) ==
    {i \in 1..Len(trace) : trace[i].hash = h /\ trace[i].out.kind = "Ok"}

Failures(h) ==
    {i \in 1..Len(trace) : trace[i].hash = h /\ trace[i].out.kind # "Ok"}

\* The keys of a hash -> Option<payload> map.
Keys(m) == {h \in Hashes : m[h] # None}

\* C17 as stated: the recorded set holds exactly the hashes retrieved
\* successfully, each with the store's payload, and each hash is read from
\* the store at most once.
C17_RecordedReadOnce ==
    \A h \in Hashes :
        /\ h \in Keys(recorded) <=> Successes(h) # {}
        /\ h \in Keys(recorded) => recorded[h] = store[h]
        /\ store_reads[h] <= 1

\* C17 amended: the recorded set holds exactly the hashes retrieved
\* successfully, each with the store's payload, which is what every
\* successful call returned; the store is read once by each call that
\* fails and once by the first call that succeeds, and by no other call.
C17_RecordedReadOnceOk ==
    \A h \in Hashes :
        /\ h \in Keys(recorded) <=> Successes(h) # {}
        /\ h \in Keys(recorded) => recorded[h] = store[h]
        /\ \A i \in Successes(h) : Some(trace[i].out.val[1]) = store[h]
        /\ store_reads[h] = Cardinality(Failures(h))
                                + (IF h \in Keys(recorded) THEN 1 ELSE 0)

\* C17 witness: "A" was retrieved three times, the first time with an I/O
\* error, and was read from the store twice.
C17_Witness ==
    /\ Cardinality(Successes("A")) = 2
    /\ Cardinality(Failures("A")) = 1
    /\ store_reads["A"] = 2
    /\ pc[Main] = "idle"

\* C18: on the partial storage, a retrieve of a hash in the fixed mapping
\* returns the mapping's payload and marks the hash visited; the visited
\* set is a subset of the mapping's keys and is exactly the set of hashes
\* retrieved successfully so far; the mapping never changes.
C18_PartialVisited ==
    pc[Main] = "replay" =>
        /\ recorded_storage = recorded
        /\ visited_nodes \subseteq Keys(recorded_storage)
        /\ visited_nodes = {history[i].hash : i \in 1..Len(history)}
        /\ \A h \in Keys(recorded_storage) :
               key[Main] = Some(h) =>
                   /\ result[Main] = Ok(recorded_storage[h][1])
                   /\ h \in visited_nodes

\* C18 witness: both hashes were retrieved from the partial storage, and
\* at least one call was made before the last one.
C18_Witness ==
    /\ pc[Main] = "replay"
    /\ visited_nodes = {"A", "B"}
    /\ replayed >= 3
    /\ result[Main].kind = "Ok"

\* C19: on the partial storage, a retrieve of a hash that is not in the
\* fixed mapping returns TrieNodeMissing, does not panic, and leaves the
\* visited set as it was.
C19_ReplayMissing ==
    [][(pc[Main] = "replay" /\ replayed' = replayed + 1
           /\ recorded_storage[trace[replayed + 1].hash] = None)
          => /\ result'[Main] = Err("TrieNodeMissing")
             /\ visited_nodes' = visited_nodes
             /\ pc'[Main] = "replay"]_vars

\* C19 witness: the last retrieve on the partial storage failed with
\* TrieNodeMissing after an earlier one had succeeded.
C19_Witness ==
    /\ pc[Main] = "replay"
    /\ result[Main].kind = "TrieNodeMissing"
    /\ visited_nodes # {}

\* C20: a partial storage built from the recorded set, replaying the
\* recorded sequence, returns for every hash that was retrieved
\* successfully while recording the payload returned then; once the whole
\* sequence is replayed, the visited set is the set of recorded hashes.
C20_RecordReplayRoundTrip ==
    pc[Main] = "replay" =>
        /\ replayed >= 1 =>
               \A i \in Successes(trace[replayed].hash) :
                   result[Main] = trace[i].out
        /\ replayed = Len(trace) => visited_nodes = Keys(recorded)

\* C20 witness: a sequence of four calls, one of which failed while
\* recording, has been replayed to its end and both hashes are visited.
C20_Witness ==
    /\ pc[Main] = "replay"
    /\ Len(trace) = 4
    /\ replayed = Len(trace)
    /\ \E i \in 1..Len(trace) : trace[i].out.kind # "Ok"
    /\ visited_nodes = {"A", "B"}

\* C21: the key of (S, H) is 40 bytes, the 8 bytes of S followed by the 32
\* bytes of H; decoding it gives back (S, H); no other pair has that key;
\* and whatever key decodes to a pair is the key of that pair.
C21_KeyRoundTrip ==
    LET k == GetKey(uid, node_hash) IN
    /\ Len(k) = 40
    /\ SubSeq(k, 1, 8) = uid
    /\ SubSeq(k, 9, 40) = node_hash
    /\ \A S \in ShardUIds, H \in NodeHashes :
           GetKey(S, H) = k => S = uid /\ H = node_hash
    /\ (store_key = k /\ decoded # NoResult)
           => decoded = Ok([id |-> uid, hash |-> node_hash])
    /\ decoded.kind = "Ok"
           => GetKey(decoded.val[1].id, decoded.val[1].hash) = store_key

\* C21 witness: the key of a pair whose shard uid ends in a non-zero byte
\* was composed and decoded.
C21_Witness ==
    /\ uid[UidLen] = 1
    /\ node_hash[1] = 1
    /\ store_key = GetKey(uid, node_hash)
    /\ decoded.kind = "Ok"

\* C22 as stated: decoding a key that is not 40 bytes long aborts; no value
\* comes back to the caller.
C22_WrongLengthAborts ==
    (Len(store_key) # 40 /\ decoded # NoResult) => decoded.kind = "Panicked"

\* C22 amended: decoding a key that is not 40 bytes long returns the error
\* value io::Error(ErrorKind::Other) to the caller, and decoding a key of
\* 40 bytes never does.
C22_WrongLengthIsError ==
    decoded # NoResult => (Len(store_key) # 40 <=> decoded = Err("Other"))

\* C22 witness: a key of 39 bytes was decoded.
C22_Witness ==
    /\ Len(store_key) = 39
    /\ decoded = Err("Other")

\* The place of the first StopSelf in a queue, 0 when there is none.
FirstStop(q) ==
    IF \E i \in 1..Len(q) : q[i] = StopSelf
    THEN CHOOSE i \in 1..Len(q) :
             q[i] = StopSelf /\ \A j \in 1..(i - 1) : q[j] # StopSelf
    ELSE 0

\* The I/O thread w runs no more.
Ended(w) == pc[w] \in {"exited", "panicked"}

\* C23: an I/O thread that was sent StopSelf and runs no more has received
\* exactly the requests in front of the first StopSelf, each after the one
\* before it was processed to its end, and StopSelf itself; it holds no lock
\* and no payload, and never runs again.
C23_ShutdownOrdering ==
    \A w \in Workers :
        (Ended(w) /\ FirstStop(outbox[w]) # 0)
            => /\ taken[w] = FirstStop(outbox[w])
               /\ cacheLock # w /\ prefetchLock # w
               /\ val[w] = None

\* What holds of C23: the same of an I/O thread that left its loop by
\* returning from it.
C23_ReturnedInOrder ==
    \A w \in Workers :
        pc[w] = "exited"
            => /\ taken[w] > 0
               /\ outbox[w][taken[w]] \in {StopSelf, Hangup}
               /\ \A i \in 1..(taken[w] - 1) : outbox[w][i][1] = "Prefetch"
               /\ cacheLock # w /\ prefetchLock # w
               /\ val[w] = None

\* C24: an I/O thread that reads the store for a hash, or is about to store
\* what it read, finds the slot of that hash Pending: the panic "Slot should
\* be pending" is never reached.
C24_CompleteFindsPending ==
    \A w \in Workers :
        pc[w] \in {"reading", "complete"} => prefetching[key[w][1]] = Some(Pending)

\* C24 witness: a fetch was completed while another thread waits for it.
C24_Witness ==
    \E h \in Hashes, w1, w2 \in Workers :
        /\ prefetching[h] # None
        /\ prefetching[h][1].state = "Done"
        /\ key[w1] = Some(h) /\ pc[w1] = "idle" /\ result[w1].kind = "Ok"
        /\ key[w2] = Some(h) /\ pc[w2] = "wait"

\* C25: the fallback lookup of an I/O thread whose slot vanished never
\* fails: it returns the payload from the shard cache.
C25_FallbackFinds ==
    [][\A w \in Workers :
          (pc[w] = "fallback" /\ pc'[w] # "fallback")
              => pc'[w] = "idle" /\ result'[w].kind = "Ok"]_vars

\* C26: a Done slot leaves the registry only by the execution thread taking
\* it.
C26_DoneKeptForMain ==
    [][\A h \in Hashes :
          (prefetching[h] # None /\ prefetching'[h] = None)
              => TakesDone(Main) /\ key[Main] = Some(h)]_vars

\* C28: of the I/O threads, at most one per hash is reading the store or
\* holds what it read and has not stored it yet.
C28_OneWorkerPerHash ==
    \A h \in Hashes :
        Cardinality({w \in Workers :
            pc[w] \in {"reading", "complete"} /\ key[w] = Some(h)}) <= 1

\* C28 witness: one I/O thread reads the store for a hash while another
\* waits for the same hash.
C28_Witness ==
    \E h \in Hashes, w1, w2 \in Workers :
        /\ pc[w1] = "reading" /\ key[w1] = Some(h)
        /\ pc[w2] = "wait" /\ key[w2] = Some(h)
        /\ prefetching[h] = Some(Pending)

\* C30: a retrieve that hits the chunk cache returns that payload, adds one
\* to mem_reads and changes nothing else: db_reads, the chunk cache, the
\* shard cache with its recency order, the registry, the store and the mode
\* stay as they are.
C30_ChunkHitOnlyCountsMem ==
    [][\A h \in Hashes :
          (MainEnters(h) /\ chunk_cache[h] # None)
              => /\ pc'[Main] = "idle"
                 /\ result'[Main] = Ok(chunk_cache[h][1])
                 /\ mem_read_nodes' = mem_read_nodes + 1
                 /\ UNCHANGED <<db_read_nodes, chunk_cache, shard_cache,
                                prefetching, store, cache_mode>>]_vars

\* C30 witness: in the mode CachingShard the chunk cache was hit for a hash
\* that is not the most recently used of a full shard cache.
C30_Witness ==
    /\ cache_mode = "CachingShard"
    /\ pc[Main] = "idle"
    /\ mem_read_nodes = 1
    /\ db_read_nodes = 2
    /\ calls = 3
    /\ prefetches = 0 /\ updates = 0
    /\ Len(history) = 3
    /\ history[3].chunk
    /\ Len(shard_cache) = 2
    /\ shard_cache[1].hash = history[3].hash

\* C29: the execution thread that found the slot of its hash Pending does
\* not read the store in that call: it is never at the store read and never
\* holds a payload it read itself.
C29_PendingMeansNoRead ==
    sawPending => (pc[Main] # "reading" /\ ~fetched[Main])

\* C27: every call of retrieve_raw_bytes, of the execution thread or of an
\* I/O thread, returns in the end, when all threads are scheduled fairly and
\* the store reads of the I/O threads succeed.
C27_EveryCallReturns ==
    \A t \in Threads : InCall(t) ~> (pc[t] = "idle")

\* What holds of C27: every call returns or panics in the end; no call
\* polls or waits for a lock for ever.
C27_EveryCallEnds ==
    \A t \in Threads : InCall(t) ~> (pc[t] \in {"idle", "panicked"})

\* ------------------------------------------------------------- C31..C40
\* The step in which the execution thread returns a payload.
MainReturnsOk ==
    /\ pc'[Main] = "idle"
    /\ result'[Main].kind = "Ok"
    /\ calls' # calls \/ pc[Main] # "idle"

\* C31: in the mode CachingShard no step changes the chunk cache; in the
\* mode CachingChunk a retrieve that returns a payload leaves the hash in
\* the chunk cache with that payload, whatever its size, and the other
\* entries as they were.
C31_ChunkFilledInChunkMode ==
    [][/\ cache_mode = "CachingShard" => chunk_cache' = chunk_cache
       /\ (MainReturnsOk /\ cache_mode = "CachingChunk")
             => LET h == key'[Main][1] IN
                /\ chunk_cache'[h] = result'[Main].val
                /\ \A x \in Hashes \ {h} : chunk_cache'[x] = chunk_cache[x]]_vars

\* C31 witness: in the mode CachingChunk a payload of the limit size was
\* returned; it is in the chunk cache and not in the shard cache.
C31_Witness ==
    /\ cache_mode = "CachingChunk"
    /\ pc[Main] = "idle"
    /\ result[Main].kind = "Ok"
    /\ result[Main].val[1].len >= TRIE_LIMIT_CACHED_VALUE_SIZE
    /\ chunk_cache[key[Main][1]] = result[Main].val
    /\ ~LruHas(shard_cache, key[Main][1])

\* C32: the chunk cache starts empty; an entry of the chunk cache stays,
\* with its payload, whatever step is taken; a hit on it in the mode
\* CachingShard counts as a mem-read.
C32_ChunkCacheOnlyGrows ==
    /\ \A h \in Hashes : chunk_cache[h] = None
    /\ [][\A h \in Hashes :
             /\ chunk_cache[h] # None => chunk_cache'[h] = chunk_cache[h]
             /\ (MainEnters(h) /\ chunk_cache[h] # None
                     /\ cache_mode = "CachingShard")
                   => mem_read_nodes' = mem_read_nodes + 1]_vars

\* C32 witness: both hashes are in the chunk cache, the mode is CachingShard
\* again, the shard cache was emptied, and a hit was counted.
C32_Witness ==
    /\ \A h \in Hashes : chunk_cache[h] # None
    /\ cache_mode = "CachingShard"
    /\ updates >= 1
    /\ shard_cache = <<>>
    /\ mem_read_nodes >= 1

\* The step is one of an I/O thread's retrieve_raw_bytes.
WorkerActs ==
    \/ prefetches' # prefetches
    \/ \E w \in Workers : pc'[w] # pc[w]

\* The hashes of the shard cache with their payloads.
Contents(c) == {<<c[i].hash, c[i].val>> : i \in 1..Len(c)}

\* C33: no step of an I/O thread's retrieve changes which hashes the shard
\* cache holds, or their payloads.
C33_WorkersKeepContents ==
    [][WorkerActs => Contents(shard_cache') = Contents(shard_cache)]_vars

\* C33 witness: an I/O thread found its hash in a shard cache of two
\* entries, which the execution thread had filled.
C33_Witness ==
    /\ calls = 2 /\ prefetches = 1 /\ updates = 0
    /\ Len(history) = 2
    /\ history[1].hash = "A" /\ history[2].hash = "B"
    /\ Len(shard_cache) = 2
    /\ shard_cache[1].hash = "B" /\ shard_cache[2].hash = "A"
    /\ \E w \in Workers : key[w] = Some("A") /\ result[w].kind = "Ok"

\* C34: a step of an I/O thread's retrieve leaves the shard cache as it is,
\* recency order included.
C34_WorkersKeepRecency ==
    [][WorkerActs => shard_cache' = shard_cache]_vars

\* C36: a payload held for a hash in the chunk cache, in the shard cache or
\* in a Done slot is the payload the store holds for that hash.
C36_TiersAgreeWithStore ==
    \A h \in Hashes :
        /\ chunk_cache[h] # None => chunk_cache[h] = store[h]
        /\ LruHas(shard_cache, h) => LruPeek(shard_cache, h) = store[h]
        /\ (prefetching[h] # None /\ prefetching[h][1].state = "Done")
               => prefetching[h][1].val = store[h]

\* C36 witness: the three tiers hold payloads at the same time, after an
\* update_cache batch.
C36_Witness ==
    /\ updates >= 1
    /\ \E h \in Hashes : chunk_cache[h] # None
    /\ shard_cache # <<>>
    /\ \E h \in Hashes : prefetching[h] # None /\ prefetching[h][1].state = "Done"

\* The next step of thread t needs the shard-cache lock, the registry lock.
WaitsCache(t) ==
    \/ pc[t] = "fallback"
    \/ t = Main /\ pc[t] = "put" /\ Admits(val[t][1])

WaitsRegistry(t) == pc[t] \in {"lock_prefetching", "wait", "complete"}

\* Thread t waits for a lock that thread u holds.
WaitsFor(t, u) ==
    \/ WaitsCache(t) /\ cacheLock = u
    \/ WaitsRegistry(t) /\ prefetchLock = u

\* C37: no thread waits for a lock it holds itself, no two threads wait for
\* a lock the other holds; the holder of a lock somebody waits for is inside
\* its call and waits for no lock itself; and a thread that comes to hold
\* both locks held the shard-cache lock before and takes the registry lock
\* in that step.
C37_NoLockCycle ==
    /\ [](\A t, u \in Threads : ~(WaitsFor(t, u) /\ WaitsFor(u, t)))
    /\ [](\A t, u \in Threads :
             WaitsFor(t, u) => InCall(u) /\ \A v \in Threads : ~WaitsFor(u, v))
    /\ [][\A t \in Threads :
             (cacheLock' = t /\ prefetchLock' = t /\ prefetchLock # t)
                 => cacheLock = t]_vars

\* C37 witness: the execution thread waits for the registry lock and an I/O
\* thread for the shard-cache lock, while another I/O thread holds both.
C37_Witness ==
    \E w1, w2 \in Workers :
        /\ cacheLock = w1 /\ prefetchLock = w1
        /\ WaitsFor(Main, w1)
        /\ WaitsFor(w2, w1)
        /\ WaitsCache(w2)

\* C40: the turn of update_cache for an entry whose raw value decodes to no
\* payload removes the entry of that hash from the shard cache, keeps the
\* others in their order and inserts nothing.
C40_UndecodedIsDeletion ==
    [][(cursor' = cursor + 1
           /\ batch[cursor'].value # None
           /\ DecodeValueWithRc(batch[cursor'].value[1]) = None)
          => /\ ~LruHas(shard_cache', batch[cursor'].hash)
             /\ shard_cache' =
                    SelectSeq(shard_cache,
                              LAMBDA e : e.hash # batch[cursor'].hash)]_vars

\* C40 witness: a batch inserted a hash and then carried a raw value for it
\* that decodes to no payload; the hash is gone, another one is still cached.
C40_Witness ==
    /\ BatchDone
    /\ Len(batch) = 2
    /\ batch[1].hash = batch[2].hash
    /\ Inserts(batch[1])
    /\ batch[2].value # None
    /\ Carried(batch[2]) = None
    /\ ~LruHas(shard_cache, batch[2].hash)
    /\ shard_cache # <<>>

\* The storage errors of retrieve_raw_bytes.
StorageErrors == {"StorageInternalError", "StorageInconsistentState"}

\* C35: an I/O thread whose lookup ends with a storage error is back at the
\* head of its loop, alive, and nothing was sent or handed to anybody; every
\* receive happens at the head of the loop and takes the next message of the
\* queue: a Prefetch starts the lookup of its key, StopSelf and the hang-up
\* of the channel end the thread.
C35_FireAndForget ==
    [][\A w \in Workers :
          /\ (pc[w] = "reading" /\ pc'[w] \notin {"reading", "complete"})
                => /\ pc'[w] = "idle"
                   /\ result'[w].kind \in StorageErrors
                   /\ UNCHANGED <<outbox, taken, prefetching, shard_cache>>
                   /\ \A t \in Threads \ {w} : result'[t] = result[t]
          /\ taken'[w] # taken[w]
                => /\ pc[w] = "idle"
                   /\ taken'[w] = taken[w] + 1
                   /\ LET req == outbox[w][taken'[w]] IN
                      IF req[1] = "Prefetch"
                      THEN pc'[w] = "panicked" \/ key'[w] = Some(req[2])
                      ELSE pc'[w] = "exited"]_vars

\* C35 witness: an I/O thread was sent two requests; the lookup of the
\* first failed because the store lacks the node, the lookup of the second
\* returned a payload.
C35_Witness ==
    \E w \in Workers :
        /\ store["B"] = None
        /\ outbox[w] = <<Prefetch("B"), Prefetch("A")>>
        /\ taken[w] = 2
        /\ pc[w] = "idle"
        /\ result[w].kind = "Ok"
        /\ key[w] = Some("A")

\* The slot of hash h is Pending and no I/O thread is reading the store for
\* it or about to store what it read.
Orphaned(h) ==
    /\ prefetching[h] = Some(Pending)
    /\ \A w \in Workers :
           ~(key[w] = Some(h) /\ pc[w] \in {"reading", "complete"})

\* C38: a Pending slot does not stay Pending for ever, when the I/O threads
\* are scheduled fairly and every store read returns.
C38_NoSlotPendingForever ==
    \A h \in Hashes :
        (prefetching[h] = Some(Pending)) ~> (prefetching[h] # Some(Pending))

\* What holds of C38: a Pending slot is replaced by Done in the end, or its
\* store read returned without a payload and left it behind.
C38_PendingEndsOrOrphaned ==
    \A h \in Hashes :
        (prefetching[h] = Some(Pending))
            ~> (prefetching[h] # Some(Pending) \/ Orphaned(h))

\* StopSelf or the hang-up of the channel was enqueued for the I/O thread w.
StopSent(w) ==
    \E i \in 1..Len(outbox[w]) : outbox[w][i] \in {StopSelf, Hangup}

\* C39: an I/O thread for which StopSelf was enqueued, or whose senders are
\* all dropped, runs no more in the end, when the I/O threads are scheduled
\* fairly and every store read returns.
C39_WorkerTerminates ==
    \A w \in Workers : StopSent(w) ~> Ended(w)

\* What holds of C39: such a thread runs no more in the end, or it polls a
\* slot that a store read without a payload left Pending.
C39_TerminatesOrPollsOrphan ==
    \A w \in Workers :
        StopSent(w) ~> (Ended(w) \/ (pc[w] = "wait" /\ Orphaned(key[w][1])))

====
